---- MODULE Spec2Model ----
(***************************************************************************)
(* Session orchestration of sniaff-android-mcp: SessionManager             *)
(* (startSession, rollback, stopSession, getSession) over EmulatorAdapter, *)
(* with the ProcessSupervisor, PortFinder, WorkspaceManager and            *)
(* AvdSetupAdapter collaborators.                                          *)
(*                                                                         *)
(* Every await of the code is one suspension point.  An action is the      *)
(* completion of the awaited operation together with the continuation that *)
(* runs up to the next await.  Calls interleave only between actions, as   *)
(* on the single-threaded event loop.                                      *)
(***************************************************************************)
EXTENDS Integers, Sequences, FiniteSets, TLC

\* Number of startSession calls; call c generates session id c.
NumCalls == 2

\* config.defaultEmulatorPort
DefaultEmulatorPort == 5554
\* Upper end of the console port range handed to findAvailableEven.
MaxConsolePort == 5682

Calls == 1..NumCalls

\* The configured session count ceiling (SNIAFF_MAX_SESSIONS), set one below
\* the number of calls so that the calls can reach it.
MaxSessions == NumCalls - 1

\* Requested emulatorPort values of StartInput: not given (0), the odd port
\* below the last console port of the range, and an odd port whose even
\* successor lies above the range.
PortInputs == {0, MaxConsolePort - 1, MaxConsolePort + 1}

NULL == 0

VARIABLES
    pc,         \* position of each startSession call
    session,    \* the Session object of each call (the local `session`)
    sessions,   \* keys of the registry Map; the entry of id c is session[c]
    events,     \* stateChange notifications emitted, per session id
    observed,   \* the state of the registry entry a listener read inside each
                \* notification, per session id
    workspace,  \* workspace directory of each session id
    meta,       \* state persisted in meta.json of each session id
    proc,       \* ProcessSupervisor: the process spawned by each call
    port,       \* consolePort local of EmulatorAdapter.start
    caught,     \* the error caught by startSession's catch block
    thrown,     \* the error the call rejected with
    result,     \* the SessionStartResult the call resolved with
    avdExists,  \* the managed device image exists
    avdLock,    \* the call holding the image-setup critical section
    avdInfo,    \* AvdSetupInfo of each call
    stopPc,     \* position of the stopSession call for each id
    stopPid,    \* the pid stopSession passed to emulatorAdapter.stop
    notFound,   \* the id the latest stopSession call rejected as SESSION_NOT_FOUND
    wbPc,       \* position of the waitForBoot call
    wbError,    \* the error kind waitForBoot rejected with
    wbTimeout,  \* the timeout argument of waitForBoot
    wbPoll,     \* config.bootPollInterval
    wbNow,      \* Date.now() - startTime of the waitForBoot call
    wbDeviceAt, \* wbNow when waitForDevice saw the device, -1 before
    wbPolls,    \* getprop commands the boot-completion loop has run
    wbLast,     \* outcome of the last adb command of the call
    httpProxy,  \* the device's global http_proxy setting
    pxLog,      \* the setProxy / clearProxy calls made, with their outcomes
    rootLog,    \* the checkRootStatus calls made, with their outcomes
    rbPc,       \* position of the reboot call
    rbError,    \* the error kind reboot rejected with
    rbLog,      \* the steps the reboot call has taken, in order
    hPc,        \* position of the command handler call
    hCall,      \* tool and arguments of the handler call, whether getSession
                \* found the session, and the outcome of its device command
    hCmds,      \* device commands the handler call has issued
    hPayload    \* the payload the handler call returned

\* State of SessionManager and its collaborators.
mainVars == << pc, session, sessions, events, observed, workspace, meta, proc, port,
               caught, thrown, result, avdExists, avdLock, avdInfo, stopPc, stopPid,
               notFound >>

\* The device's proxy setting and the proxy calls made on it.
proxyVars == << httpProxy, pxLog >>

\* State of the remaining device operations and of the command handlers:
\* checkRootStatus calls, one reboot call, one handler call at a time.
toolVars == << rootLog, rbPc, rbError, rbLog, hPc, hCall, hCmds, hPayload >>

\* State of the EmulatorAdapter device operations: one waitForBoot call with
\* its clock, and the proxy calls.
devVars == << wbPc, wbError, wbTimeout, wbPoll, wbNow, wbDeviceAt, wbPolls, wbLast,
             proxyVars, toolVars >>

vars == << mainVars, devVars >>

\* SessionState, in start order.
StateOrder == << "SETUP_AVD", "CREATE_WORKSPACE", "START_EMULATOR", "WAIT_BOOT", "READY" >>

NoSession == [state |-> "none", emulatorPort |-> 0, adbPort |-> 0, emulatorPid |-> NULL]
NoError == [typed |-> FALSE, kind |-> "none", sessionId |-> 0]
NoProc == [state |-> "none", port |-> 0]
NoCall == [tool |-> "none", sessionId |-> 0, key |-> "none", found |-> FALSE, out |-> "none"]
NoPayload == [ok |-> FALSE, isError |-> FALSE, kind |-> "none"]
NoResult == [sessionId |-> 0, workspacePath |-> 0, emulatorPort |-> 0, adbPort |-> 0,
             state |-> "none", avdSetup |-> "none"]

\* new SniaffError(kind, ...)
SniaffError(kind) == [typed |-> TRUE, kind |-> kind, sessionId |-> 0]
\* Any thrown value that is not a SniaffError.
RawError == [typed |-> FALSE, kind |-> "raw", sessionId |-> 0]

Init ==
    /\ pc = [c \in Calls |-> "idle"]
    /\ session = [c \in Calls |-> NoSession]
    /\ sessions = {}
    /\ events = [c \in Calls |-> << >>]
    /\ observed = [c \in Calls |-> << >>]
    /\ workspace = [c \in Calls |-> "none"]
    /\ meta = [c \in Calls |-> "none"]
    /\ proc = [c \in Calls |-> NoProc]
    /\ port = [c \in Calls |-> 0]
    /\ caught = [c \in Calls |-> NoError]
    /\ thrown = [c \in Calls |-> NoError]
    /\ result = [c \in Calls |-> NoResult]
    /\ avdExists = FALSE
    /\ avdLock = 0
    /\ avdInfo = [c \in Calls |-> "none"]
    /\ stopPc = [c \in Calls |-> "idle"]
    /\ stopPid = [c \in Calls |-> NULL]
    /\ notFound = 0
    /\ wbPc = "idle"
    /\ wbError = "none"
    /\ wbTimeout = 0
    /\ wbPoll = 0
    /\ wbNow = 0
    /\ wbDeviceAt = -1
    /\ wbPolls = 0
    /\ wbLast = "none"
    /\ httpProxy = "unset"
    /\ pxLog = << >>
    /\ rootLog = << >>
    /\ rbPc = "idle"
    /\ rbError = "none"
    /\ rbLog = << >>
    /\ hPc = "idle"
    /\ hCall = NoCall
    /\ hCmds = 0
    /\ hPayload = NoPayload

----------------------------------------------------------------------------
\* SessionManager helpers.

\* getSession(sessionId): the registry entry, or NoSession for undefined.
getSession(id) == IF id \in sessions THEN session[id] ELSE NoSession

\* updateState(sessionId, state): emit('stateChange', sessionId, state).
updateState(ev, c, s) == [ev EXCEPT ![c] = Append(@, s)]

\* A 'stateChange' listener runs inside emit and reads the registry:
\* getSession(sessionId)?.state, as it is at that statement.
observe(ob, c, st) == [ob EXCEPT ![c] = Append(@, st)]

\* Variant of Rethrow: the caught value is rethrown as it is.
RethrowRaw(c, err) == err

\* The error startSession rejects with, given the error it caught.
Rethrow(c, err) ==
    IF err.typed THEN err
    ELSE [typed |-> TRUE, kind |-> "INTERNAL_ERROR", sessionId |-> c]

\* ProcessSupervisor.isRunning(pid); the pid of the process of call c is c.
isRunning(pid) == pid # NULL /\ proc[pid].state = "running"

\* ProcessSupervisor.kill(pid): terminates a running process, no-op otherwise.
kill(pr, pid) ==
    IF pid # NULL /\ pr[pid].state = "running"
    THEN [pr EXCEPT ![pid].state = "killed"]
    ELSE pr

\* Variant of Catch: a rollback that never stops the emulator.
CatchWithoutStop(c, err) ==
    /\ caught' = [caught EXCEPT ![c] = err]
    /\ events' = events
    /\ observed' = observed
    /\ sessions' = sessions
    /\ IF session[c] = NoSession
       THEN /\ session' = session
            /\ thrown' = [thrown EXCEPT ![c] = Rethrow(c, err)]
            /\ pc' = [pc EXCEPT ![c] = "thrown"]
       ELSE /\ session' = [session EXCEPT ![c].state = "ERROR"]
            /\ thrown' = thrown
            /\ pc' = [pc EXCEPT ![c] = "RB_META"]

\* The catch block of startSession up to the first await of rollback (or, with
\* no session object, up to the rejection).
Catch(c, err) ==
    /\ caught' = [caught EXCEPT ![c] = err]
    /\ events' = events
    /\ observed' = observed
    /\ sessions' = sessions
    /\ IF session[c] = NoSession
       THEN /\ session' = session
            /\ thrown' = [thrown EXCEPT ![c] = Rethrow(c, err)]
            /\ pc' = [pc EXCEPT ![c] = "thrown"]
       ELSE /\ session' = [session EXCEPT ![c].state = "ERROR"]
            /\ thrown' = thrown
            /\ pc' = [pc EXCEPT ![c] =
                        IF session[c].emulatorPid # NULL THEN "RB_STOP" ELSE "RB_META"]

----------------------------------------------------------------------------
\* startSession

\* Call c is the c-th startSession call: generateSessionId gives it id c, then
\* SETUP_AVD is announced and ensureSniaffAvd is called.
StartSession(c) ==
    /\ pc[c] = "idle"
    /\ \A d \in Calls : d < c => pc[d] # "idle"
    /\ events' = updateState(events, c, "SETUP_AVD")
    /\ observed' = observe(observed, c, getSession(c).state)
    /\ pc' = [pc EXCEPT ![c] = "SETUP_AVD"]
    /\ UNCHANGED << session, sessions, workspace, meta, proc, port, caught, thrown,
                    result, avdExists, avdLock, avdInfo, stopPc, stopPid, notFound >>
    /\ UNCHANGED devVars


----------------------------------------------------------------------------
\* AvdSetupAdapter.ensureSniaffAvd: one creation / rooting / self-heal sequence
\* in flight at a time.

\* Errors ensureSniaffAvd can reject with.
SetupErrors == {SniaffError("AVD_SETUP_FAILED"), RawError}

\* Variant of AfterSetupAvd: START_EMULATOR is announced in place of
\* CREATE_WORKSPACE.
AfterSetupAvdSkipsState(c) ==
    /\ events' = updateState(events, c, "START_EMULATOR")
    /\ observed' = observe(observed, c, "CREATE_WORKSPACE")
    /\ pc' = [pc EXCEPT ![c] = "CREATE_WORKSPACE"]
    /\ UNCHANGED << session, sessions, caught, thrown >>

\* Variant of AfterSetupAvd: the session object is inserted into the registry
\* before workspaceManager.create is called.
AfterSetupAvdRegisters(c) ==
    /\ events' = updateState(events, c, "CREATE_WORKSPACE")
    /\ observed' = observe(observed, c, getSession(c).state)
    /\ pc' = [pc EXCEPT ![c] = "CREATE_WORKSPACE"]
    /\ session' = [session EXCEPT ![c] =
                     [state |-> "CREATE_WORKSPACE", emulatorPort |-> 0, adbPort |-> 0,
                      emulatorPid |-> NULL]]
    /\ sessions' = sessions \cup {c}
    /\ UNCHANGED << caught, thrown >>

\* startSession after ensureSniaffAvd resolved: CREATE_WORKSPACE is announced
\* and workspaceManager.create is called.
AfterSetupAvd(c) ==
    /\ events' = updateState(events, c, "CREATE_WORKSPACE")
    /\ observed' = observe(observed, c, getSession(c).state)
    /\ pc' = [pc EXCEPT ![c] = "CREATE_WORKSPACE"]
    /\ UNCHANGED << session, sessions, caught, thrown >>

\* Variant of AvdAcquire: a call starts its setup sequence while another one
\* is in flight.
AvdAcquireUnlocked(c) ==
    /\ pc[c] = "SETUP_AVD"
    /\ avdLock' = c
    /\ avdExists' = TRUE
    /\ avdInfo' = [avdInfo EXCEPT ![c] = IF avdExists THEN "reused" ELSE "created"]
    /\ pc' = [pc EXCEPT ![c] = "AVD_CHECK"]
    /\ UNCHANGED << session, sessions, events, observed, workspace, meta, proc, port,
                    caught, thrown, result, stopPc, stopPid, notFound >>
    /\ UNCHANGED devVars

\* Enter the critical section; create and root the image when it is missing.
AvdAcquire(c) ==
    /\ pc[c] = "SETUP_AVD"
    /\ avdLock = 0
    /\ avdLock' = c
    /\ avdExists' = TRUE
    /\ avdInfo' = [avdInfo EXCEPT ![c] = IF avdExists THEN "reused" ELSE "created"]
    /\ pc' = [pc EXCEPT ![c] = "AVD_CHECK"]
    /\ UNCHANGED << session, sessions, events, observed, workspace, meta, proc, port,
                    caught, thrown, result, stopPc, stopPid, notFound >>
    /\ UNCHANGED devVars

\* The root check succeeds.
AvdCheckOk(c) ==
    /\ pc[c] \in {"AVD_CHECK", "AVD_RECHECK"}
    /\ avdLock' = 0
    /\ AfterSetupAvd(c)
    /\ UNCHANGED << workspace, meta, proc, port, result, avdExists, avdInfo,
                    stopPc, stopPid, notFound >>
    /\ UNCHANGED devVars

\* Variant of AvdCheckFailHeal: every failed root check starts a heal cycle.
AvdCheckFailHealAgain(c) ==
    /\ pc[c] \in {"AVD_CHECK", "AVD_RECHECK"}
    /\ pc[c] = "AVD_CHECK" => avdInfo[c] = "reused"
    /\ avdExists' = FALSE
    /\ pc' = [pc EXCEPT ![c] = "AVD_HEAL"]
    /\ UNCHANGED << session, sessions, events, observed, workspace, meta, proc, port,
                    caught, thrown, result, avdLock, avdInfo, stopPc, stopPid, notFound >>
    /\ UNCHANGED devVars

\* The root check fails on an image that was already there: delete it and heal.
AvdCheckFailHeal(c) ==
    /\ pc[c] = "AVD_CHECK"
    /\ avdInfo[c] = "reused"
    /\ avdExists' = FALSE
    /\ pc' = [pc EXCEPT ![c] = "AVD_HEAL"]
    /\ UNCHANGED << session, sessions, events, observed, workspace, meta, proc, port,
                    caught, thrown, result, avdLock, avdInfo, stopPc, stopPid, notFound >>
    /\ UNCHANGED devVars

\* The root check fails on the image this call created, or fails again after
\* the heal cycle: fatal setup error.
AvdCheckFailFatal(c, err) ==
    /\ pc[c] \in {"AVD_CHECK", "AVD_RECHECK"}
    /\ pc[c] = "AVD_CHECK" => avdInfo[c] = "created"
    /\ avdLock' = 0
    /\ Catch(c, err)
    /\ UNCHANGED << workspace, meta, proc, port, result, avdExists, avdInfo,
                    stopPc, stopPid, notFound >>
    /\ UNCHANGED devVars

\* The single heal cycle recreated and re-rooted the image: root is re-checked.
AvdHealRecreate(c) ==
    /\ pc[c] = "AVD_HEAL"
    /\ avdExists' = TRUE
    /\ avdInfo' = [avdInfo EXCEPT ![c] = "created"]
    /\ pc' = [pc EXCEPT ![c] = "AVD_RECHECK"]
    /\ UNCHANGED << session, sessions, events, observed, workspace, meta, proc, port,
                    caught, thrown, result, avdLock, stopPc, stopPid, notFound >>
    /\ UNCHANGED devVars

\* The heal cycle could not recreate the image: fatal setup error.
AvdHealFail(c, err) ==
    /\ pc[c] = "AVD_HEAL"
    /\ avdExists' = FALSE
    /\ avdLock' = 0
    /\ Catch(c, err)
    /\ UNCHANGED << workspace, meta, proc, port, result, avdInfo, stopPc, stopPid, notFound >>
    /\ UNCHANGED devVars

----------------------------------------------------------------------------
\* WorkspaceManager.create resolved: the session object is built and inserted
\* into the registry, START_EMULATOR is announced, emulatorAdapter.start is
\* called (its first await is listAvds).
CreateWorkspaceOk(c) ==
    /\ pc[c] = "CREATE_WORKSPACE"
    /\ workspace' = [workspace EXCEPT ![c] = "exists"]
    /\ sessions' = sessions \cup {c}
    /\ events' = updateState(events, c, "START_EMULATOR")
    /\ observed' = observe(observed, c, "CREATE_WORKSPACE")
    /\ session' = [session EXCEPT ![c] =
                     [state |-> "START_EMULATOR", emulatorPort |-> 0, adbPort |-> 0,
                      emulatorPid |-> NULL]]
    /\ pc' = [pc EXCEPT ![c] = "START_LIST"]
    /\ UNCHANGED << meta, proc, port, caught, thrown, result, avdExists,
                    avdLock, avdInfo, stopPc, stopPid, notFound >>
    /\ UNCHANGED devVars

\* WorkspaceManager.create rejected.
CreateWorkspaceFail(c) ==
    /\ pc[c] = "CREATE_WORKSPACE"
    /\ Catch(c, RawError)
    /\ UNCHANGED << workspace, meta, proc, port, result, avdExists, avdLock,
                    avdInfo, stopPc, stopPid, notFound >>
    /\ UNCHANGED devVars

----------------------------------------------------------------------------
\* EmulatorAdapter.start

\* Variant of RequestedConsolePort: an odd port is not rounded up.
RequestedConsolePortOdd(p) == IF p # 0 THEN p ELSE DefaultEmulatorPort

\* consolePort = options.port || defaultEmulatorPort, rounded up to even.
RequestedConsolePort(p) ==
    LET q == IF p # 0 THEN p ELSE DefaultEmulatorPort
    IN IF q % 2 # 0 THEN q + 1 ELSE q

\* The bind probe of the Port Finder: no running process holds the port.
PortAvailable(pr, q) == \A d \in Calls : ~(pr[d].state = "running" /\ pr[d].port = q)

\* PortFinder.findAvailableEven(start, end): the first available even port of
\* [start, end], 0 when there is none (the call rejects).
findAvailableEven(pr, start, end) ==
    LET cand == {q \in start..end : q % 2 = 0 /\ PortAvailable(pr, q)}
    IN IF cand = {} THEN 0 ELSE CHOOSE q \in cand : \A r \in cand : q <= r

\* Variant of StartListOk: the list is not searched for the image.
StartListOkUnchecked(c, p) ==
    /\ pc[c] = "START_LIST"
    /\ port' = [port EXCEPT ![c] = RequestedConsolePort(p)]
    /\ pc' = [pc EXCEPT ![c] = "START_PORT"]
    /\ UNCHANGED << session, sessions, events, observed, workspace, meta, proc, caught,
                    thrown, result, avdExists, avdLock, avdInfo, stopPc, stopPid, notFound >>
    /\ UNCHANGED devVars

\* listAvds resolved with a list holding the image: the console port is
\* resolved from options.port (p; first read here) and findAvailableEven is
\* called.
StartListOk(c, p) ==
    /\ pc[c] = "START_LIST"
    /\ avdExists
    /\ port' = [port EXCEPT ![c] = RequestedConsolePort(p)]
    /\ pc' = [pc EXCEPT ![c] = "START_PORT"]
    /\ UNCHANGED << session, sessions, events, observed, workspace, meta, proc, caught,
                    thrown, result, avdExists, avdLock, avdInfo, stopPc, stopPid, notFound >>
    /\ UNCHANGED devVars

\* listAvds resolved with a list that lacks the image.
StartAvdNotFound(c) ==
    /\ pc[c] = "START_LIST"
    /\ ~avdExists
    /\ Catch(c, SniaffError("AVD_NOT_FOUND"))
    /\ UNCHANGED << workspace, meta, proc, port, result, avdExists, avdLock,
                    avdInfo, stopPc, stopPid, notFound >>
    /\ UNCHANGED devVars

\* listAvds rejected: emulator binary missing, or any other failure.
StartListFail(c, kind) ==
    /\ pc[c] = "START_LIST"
    /\ Catch(c, SniaffError(kind))
    /\ UNCHANGED << workspace, meta, proc, port, result, avdExists, avdLock,
                    avdInfo, stopPc, stopPid, notFound >>
    /\ UNCHANGED devVars

\* findAvailableEven resolved: supervisor.spawn is called with that port.
StartPortOk(c) ==
    /\ pc[c] = "START_PORT"
    /\ findAvailableEven(proc, port[c], MaxConsolePort) # 0
    /\ port' = [port EXCEPT ![c] = findAvailableEven(proc, port[c], MaxConsolePort)]
    /\ pc' = [pc EXCEPT ![c] = "START_SPAWN"]
    /\ UNCHANGED << session, sessions, events, observed, workspace, meta, proc, caught,
                    thrown, result, avdExists, avdLock, avdInfo, stopPc, stopPid, notFound >>
    /\ UNCHANGED devVars

\* findAvailableEven rejected: no port in range.
StartPortFail(c) ==
    /\ pc[c] = "START_PORT"
    /\ findAvailableEven(proc, port[c], MaxConsolePort) = 0
    /\ Catch(c, SniaffError("EMULATOR_START_FAILED"))
    /\ UNCHANGED << workspace, meta, proc, port, result, avdExists, avdLock,
                    avdInfo, stopPc, stopPid, notFound >>
    /\ UNCHANGED devVars

\* supervisor.spawn resolved: the process runs; the settle delay starts.
StartSpawnOk(c) ==
    /\ pc[c] = "START_SPAWN"
    /\ proc' = [proc EXCEPT ![c] = [state |-> "running", port |-> port[c]]]
    /\ pc' = [pc EXCEPT ![c] = "START_SETTLE"]
    /\ UNCHANGED << session, sessions, events, observed, workspace, meta, port, caught,
                    thrown, result, avdExists, avdLock, avdInfo, stopPc, stopPid, notFound >>
    /\ UNCHANGED devVars

\* supervisor.spawn rejected (ENOENT, or anything else).
StartSpawnFail(c, kind) ==
    /\ pc[c] = "START_SPAWN"
    /\ Catch(c, SniaffError(kind))
    /\ UNCHANGED << workspace, meta, proc, port, result, avdExists, avdLock,
                    avdInfo, stopPc, stopPid, notFound >>
    /\ UNCHANGED devVars

\* Variant of StartSettleOk: start returns without looking at the process.
StartSettleOkUnchecked(c) ==
    /\ pc[c] = "START_SETTLE"
    /\ events' = updateState(events, c, "WAIT_BOOT")
    /\ observed' = observe(observed, c, getSession(c).state)
    /\ session' = [session EXCEPT ![c] =
                     [state |-> "WAIT_BOOT", emulatorPort |-> port[c],
                      adbPort |-> port[c] + 1, emulatorPid |-> c]]
    /\ pc' = [pc EXCEPT ![c] = "WAIT_DEVICE"]
    /\ UNCHANGED << sessions, workspace, meta, proc, port, caught, thrown,
                    result, avdExists, avdLock, avdInfo, stopPc, stopPid, notFound >>
    /\ UNCHANGED devVars

\* Variant of StartSettleOk: the session gets its pid, and its ports only
\* after a later await.
StartSettleOkPidOnly(c) ==
    /\ pc[c] = "START_SETTLE"
    /\ isRunning(c)
    /\ events' = updateState(events, c, "WAIT_BOOT")
    /\ observed' = observe(observed, c, getSession(c).state)
    /\ session' = [session EXCEPT ![c] =
                     [state |-> "WAIT_BOOT", emulatorPort |-> 0,
                      adbPort |-> 0, emulatorPid |-> c]]
    /\ pc' = [pc EXCEPT ![c] = "WAIT_DEVICE"]
    /\ UNCHANGED << sessions, workspace, meta, proc, port, caught, thrown,
                    result, avdExists, avdLock, avdInfo, stopPc, stopPid, notFound >>
    /\ UNCHANGED devVars

\* The settle delay elapsed and the process still runs: start returns, the
\* session gets its ports and pid, WAIT_BOOT is announced, waitForBoot is called.
StartSettleOk(c) ==
    /\ pc[c] = "START_SETTLE"
    /\ isRunning(c)
    /\ events' = updateState(events, c, "WAIT_BOOT")
    /\ observed' = observe(observed, c, getSession(c).state)
    /\ session' = [session EXCEPT ![c] =
                     [state |-> "WAIT_BOOT", emulatorPort |-> port[c],
                      adbPort |-> port[c] + 1, emulatorPid |-> c]]
    /\ pc' = [pc EXCEPT ![c] = "WAIT_DEVICE"]
    /\ UNCHANGED << sessions, workspace, meta, proc, port, caught, thrown,
                    result, avdExists, avdLock, avdInfo, stopPc, stopPid, notFound >>
    /\ UNCHANGED devVars

\* The settle delay elapsed and the process has exited.
StartSettleExited(c) ==
    /\ pc[c] = "START_SETTLE"
    /\ ~isRunning(c)
    /\ Catch(c, SniaffError("EMULATOR_START_FAILED"))
    /\ UNCHANGED << workspace, meta, proc, port, result, avdExists, avdLock,
                    avdInfo, stopPc, stopPid, notFound >>
    /\ UNCHANGED devVars

\* A spawned process exits on its own.
ProcExit(c) ==
    /\ proc[c].state = "running"
    /\ proc' = [proc EXCEPT ![c].state = "exited"]
    /\ UNCHANGED << pc, session, sessions, events, observed, workspace, meta, port,
                    caught, thrown, result, avdExists, avdLock, avdInfo, stopPc, stopPid, notFound >>
    /\ UNCHANGED devVars

----------------------------------------------------------------------------
\* EmulatorAdapter.waitForBoot

\* `adb devices` / getprop answer for emulator-<consolePort>: some running
\* emulator process holds that console port.
DeviceUp(q) == \E d \in Calls : proc[d].state = "running" /\ proc[d].port = q

\* Variant of DeviceAppeared: READY is announced as soon as the device is
\* listed, before the boot-completion polling.
DeviceAppearedAnnouncesReady(c) ==
    /\ pc[c] = "WAIT_DEVICE"
    /\ DeviceUp(session[c].adbPort - 1)
    /\ events' = updateState(events, c, "READY")
    /\ observed' = observe(observed, c, getSession(c).state)
    /\ pc' = [pc EXCEPT ![c] = "WAIT_BOOT"]
    /\ UNCHANGED << session, sessions, workspace, meta, proc, port,
                    caught, thrown, result, avdExists, avdLock, avdInfo, stopPc, stopPid, notFound >>
    /\ UNCHANGED devVars

\* waitForDevice: the device identifier appeared in `adb devices`; the
\* boot-completion polling starts.
DeviceAppeared(c) ==
    /\ pc[c] = "WAIT_DEVICE"
    /\ DeviceUp(session[c].adbPort - 1)
    /\ pc' = [pc EXCEPT ![c] = "WAIT_BOOT"]
    /\ UNCHANGED << session, sessions, events, observed, workspace, meta, proc, port,
                    caught, thrown, result, avdExists, avdLock, avdInfo, stopPc, stopPid, notFound >>
    /\ UNCHANGED devVars

\* waitForDevice: the deadline passed (EMULATOR_BOOT_TIMEOUT), or adb is
\* missing (ADB_NOT_FOUND).
DeviceWaitFail(c, kind) ==
    /\ pc[c] = "WAIT_DEVICE"
    /\ Catch(c, SniaffError(kind))
    /\ UNCHANGED << workspace, meta, proc, port, result, avdExists, avdLock,
                    avdInfo, stopPc, stopPid, notFound >>
    /\ UNCHANGED devVars

\* Variant of BootCompleted: READY is announced but session.state is not set.
BootCompletedNoState(c) ==
    /\ pc[c] = "WAIT_BOOT"
    /\ DeviceUp(session[c].adbPort - 1)
    /\ events' = updateState(events, c, "READY")
    /\ observed' = observe(observed, c, getSession(c).state)
    /\ pc' = [pc EXCEPT ![c] = "UPDATE_META"]
    /\ UNCHANGED << session, sessions, workspace, meta, proc, port, caught, thrown,
                    result, avdExists, avdLock, avdInfo, stopPc, stopPid, notFound >>
    /\ UNCHANGED devVars

\* sys.boot_completed reported 1: waitForBoot returns, READY is announced and
\* set, workspaceManager.updateMeta is called.
BootCompleted(c) ==
    /\ pc[c] = "WAIT_BOOT"
    /\ DeviceUp(session[c].adbPort - 1)
    /\ events' = updateState(events, c, "READY")
    /\ observed' = observe(observed, c, getSession(c).state)
    /\ session' = [session EXCEPT ![c].state = "READY"]
    /\ pc' = [pc EXCEPT ![c] = "UPDATE_META"]
    /\ UNCHANGED << sessions, workspace, meta, proc, port, caught, thrown,
                    result, avdExists, avdLock, avdInfo, stopPc, stopPid, notFound >>
    /\ UNCHANGED devVars

\* Variant of BootTimeout: the boot-completion loop has no deadline, so it
\* never gives up.
BootTimeoutNoDeadline(c) ==
    /\ pc[c] = "WAIT_BOOT"
    /\ FALSE
    /\ UNCHANGED vars

\* The boot-completion polling ran out of time.
BootTimeout(c) ==
    /\ pc[c] = "WAIT_BOOT"
    /\ Catch(c, SniaffError("EMULATOR_BOOT_TIMEOUT"))
    /\ UNCHANGED << workspace, meta, proc, port, result, avdExists, avdLock,
                    avdInfo, stopPc, stopPid, notFound >>
    /\ UNCHANGED devVars

----------------------------------------------------------------------------
\* The end of startSession

\* The SessionStartResult built from the session object.
StartResult(c) ==
    [sessionId |-> c, workspacePath |-> c, emulatorPort |-> session[c].emulatorPort,
     adbPort |-> session[c].adbPort, state |-> "READY", avdSetup |-> avdInfo[c]]

\* updateMeta resolved (the workspace directory is there): the call returns.
UpdateMetaOk(c) ==
    /\ pc[c] = "UPDATE_META"
    /\ workspace[c] = "exists"
    /\ meta' = [meta EXCEPT ![c] = session[c].state]
    /\ result' = [result EXCEPT ![c] = StartResult(c)]
    /\ pc' = [pc EXCEPT ![c] = "returned"]
    /\ UNCHANGED << session, sessions, events, observed, workspace, proc, port, caught,
                    thrown, avdExists, avdLock, avdInfo, stopPc, stopPid, notFound >>
    /\ UNCHANGED devVars

\* updateMeta rejected.
UpdateMetaFail(c) ==
    /\ pc[c] = "UPDATE_META"
    /\ Catch(c, RawError)
    /\ UNCHANGED << workspace, meta, proc, port, result, avdExists, avdLock,
                    avdInfo, stopPc, stopPid, notFound >>
    /\ UNCHANGED devVars

----------------------------------------------------------------------------
\* rollback

\* Variant of RollbackStopDone: the rollback stops every running emulator.
RollbackStopDoneKillsAll(c) ==
    /\ pc[c] = "RB_STOP"
    /\ proc' = [d \in Calls |-> IF proc[d].state = "running"
                                THEN [proc[d] EXCEPT !.state = "killed"]
                                ELSE proc[d]]
    /\ pc' = [pc EXCEPT ![c] = "RB_META"]
    /\ UNCHANGED << session, sessions, events, observed, workspace, meta, port, caught,
                    thrown, result, avdExists, avdLock, avdInfo, stopPc, stopPid, notFound >>
    /\ UNCHANGED devVars

\* emulatorAdapter.stop settled (a rejection is caught and logged): updateMeta
\* is called.
RollbackStopDone(c) ==
    /\ pc[c] = "RB_STOP"
    /\ proc' = kill(proc, session[c].emulatorPid)
    /\ pc' = [pc EXCEPT ![c] = "RB_META"]
    /\ UNCHANGED << session, sessions, events, observed, workspace, meta, port, caught,
                    thrown, result, avdExists, avdLock, avdInfo, stopPc, stopPid, notFound >>
    /\ UNCHANGED devVars

\* Variant of RollbackMetaDone: rollback also removes the workspace directory.
RollbackMetaDoneCleans(c, written) ==
    /\ pc[c] = "RB_META"
    /\ workspace' = [workspace EXCEPT ![c] = "deleted"]
    /\ meta' = [meta EXCEPT ![c] = "none"]
    /\ sessions' = sessions \ {c}
    /\ thrown' = [thrown EXCEPT ![c] = Rethrow(c, caught[c])]
    /\ pc' = [pc EXCEPT ![c] = "thrown"]
    /\ UNCHANGED << session, events, observed, proc, port, caught, result,
                    avdExists, avdLock, avdInfo, stopPc, stopPid, notFound >>
    /\ UNCHANGED devVars

\* updateMeta settled (a rejection is ignored): the registry entry is deleted
\* and startSession rejects.
RollbackMetaDone(c, written) ==
    /\ pc[c] = "RB_META"
    /\ written => workspace[c] = "exists"
    /\ meta' = IF written THEN [meta EXCEPT ![c] = "ERROR"] ELSE meta
    /\ sessions' = sessions \ {c}
    /\ thrown' = [thrown EXCEPT ![c] = Rethrow(c, caught[c])]
    /\ pc' = [pc EXCEPT ![c] = "thrown"]
    /\ UNCHANGED << session, events, observed, workspace, proc, port, caught, result,
                    avdExists, avdLock, avdInfo, stopPc, stopPid, notFound >>
    /\ UNCHANGED devVars

----------------------------------------------------------------------------
\* stopSession(id); one call in flight per id.

\* The id is not in the registry: SESSION_NOT_FOUND.
StopUnknown(c) ==
    /\ stopPc[c] = "idle"
    /\ c \notin sessions
    /\ notFound' = c
    /\ UNCHANGED << pc, session, sessions, events, observed, workspace, meta, proc, port,
                    caught, thrown, result, avdExists, avdLock, avdInfo, stopPc, stopPid >>
    /\ UNCHANGED devVars

\* Variant of StopSession: the registry lookup is not checked.
StopSessionUnchecked(c) ==
    /\ stopPc[c] = "idle"
    /\ notFound' = 0
    /\ stopPid' = [stopPid EXCEPT ![c] = session[c].emulatorPid]
    /\ stopPc' = [stopPc EXCEPT ![c] =
                    IF session[c].emulatorPid # NULL THEN "kill" ELSE "cleanup"]
    /\ UNCHANGED << pc, session, sessions, events, observed, workspace, meta, proc, port,
                    caught, thrown, result, avdExists, avdLock, avdInfo >>
    /\ UNCHANGED devVars

\* The id is in the registry: emulatorAdapter.stop is called when the entry
\* has a pid, workspaceManager.cleanup otherwise.
StopSession(c) ==
    /\ stopPc[c] = "idle"
    /\ c \in sessions
    /\ notFound' = 0
    /\ stopPid' = [stopPid EXCEPT ![c] = session[c].emulatorPid]
    /\ stopPc' = [stopPc EXCEPT ![c] =
                    IF session[c].emulatorPid # NULL THEN "kill" ELSE "cleanup"]
    /\ UNCHANGED << pc, session, sessions, events, observed, workspace, meta, proc, port,
                    caught, thrown, result, avdExists, avdLock, avdInfo >>
    /\ UNCHANGED devVars

\* Variant of StopKillDone: stopping a process that is already gone rejects,
\* and stopSession ends there.
StopKillDoneThrows(c) ==
    /\ stopPc[c] = "kill"
    /\ proc' = kill(proc, stopPid[c])
    /\ stopPc' = [stopPc EXCEPT ![c] = IF isRunning(stopPid[c]) THEN "cleanup" ELSE "idle"]
    /\ stopPid' = [stopPid EXCEPT ![c] = IF isRunning(stopPid[c]) THEN @ ELSE NULL]
    /\ UNCHANGED << pc, session, sessions, events, observed, workspace, meta, port,
                    caught, thrown, result, avdExists, avdLock, avdInfo, notFound >>
    /\ UNCHANGED devVars

\* emulatorAdapter.stop resolved: workspaceManager.cleanup is called.
StopKillDone(c) ==
    /\ stopPc[c] = "kill"
    /\ proc' = kill(proc, stopPid[c])
    /\ stopPc' = [stopPc EXCEPT ![c] = "cleanup"]
    /\ UNCHANGED << pc, session, sessions, events, observed, workspace, meta, port,
                    caught, thrown, result, avdExists, avdLock, avdInfo, stopPid,
                    notFound >>
    /\ UNCHANGED devVars

\* workspaceManager.cleanup resolved: the registry entry is deleted and
\* stopSession resolves.
StopCleanupDone(c) ==
    /\ stopPc[c] = "cleanup"
    /\ workspace' = [workspace EXCEPT ![c] = "deleted"]
    /\ meta' = [meta EXCEPT ![c] = "none"]
    /\ sessions' = sessions \ {c}
    /\ stopPc' = [stopPc EXCEPT ![c] = "idle"]
    /\ stopPid' = [stopPid EXCEPT ![c] = NULL]
    /\ UNCHANGED << pc, session, events, observed, proc, port, caught, thrown, result,
                    avdExists, avdLock, avdInfo, notFound >>
    /\ UNCHANGED devVars

----------------------------------------------------------------------------
ListErrorKinds == {"EMULATOR_BINARY_NOT_FOUND", "EMULATOR_START_FAILED"}
SpawnErrorKinds == {"EMULATOR_BINARY_NOT_FOUND", "EMULATOR_START_FAILED"}
DeviceWaitErrorKinds == {"EMULATOR_BOOT_TIMEOUT", "ADB_NOT_FOUND"}

Next ==
    \E c \in Calls :
        \/ StartSession(c)
        \/ AvdAcquire(c)
        \/ AvdCheckOk(c)
        \/ AvdCheckFailHeal(c)
        \/ \E err \in SetupErrors : AvdCheckFailFatal(c, err)
        \/ AvdHealRecreate(c)
        \/ \E err \in SetupErrors : AvdHealFail(c, err)
        \/ CreateWorkspaceOk(c)
        \/ CreateWorkspaceFail(c)
        \/ \E p \in PortInputs : StartListOk(c, p)
        \/ StartAvdNotFound(c)
        \/ \E kind \in ListErrorKinds : StartListFail(c, kind)
        \/ StartPortOk(c)
        \/ StartPortFail(c)
        \/ StartSpawnOk(c)
        \/ \E kind \in SpawnErrorKinds : StartSpawnFail(c, kind)
        \/ StartSettleOk(c)
        \/ StartSettleExited(c)
        \/ ProcExit(c)
        \/ DeviceAppeared(c)
        \/ \E kind \in DeviceWaitErrorKinds : DeviceWaitFail(c, kind)
        \/ BootCompleted(c)
        \/ BootTimeout(c)
        \/ UpdateMetaOk(c)
        \/ UpdateMetaFail(c)
        \/ RollbackStopDone(c)
        \/ \E written \in BOOLEAN : RollbackMetaDone(c, written)
        \/ StopSession(c)
        \/ StopKillDone(c)
        \/ StopCleanupDone(c)

Spec == Init /\ [][Next]_vars

\* A step of the startSession call c past its start: an operation the call
\* awaits settles and the call runs on to its next await.
StartContinues(c) ==
    \/ AvdAcquire(c)
    \/ AvdCheckOk(c)
    \/ AvdCheckFailHeal(c)
    \/ \E err \in SetupErrors : AvdCheckFailFatal(c, err)
    \/ AvdHealRecreate(c)
    \/ \E err \in SetupErrors : AvdHealFail(c, err)
    \/ CreateWorkspaceOk(c)
    \/ CreateWorkspaceFail(c)
    \/ \E p \in PortInputs : StartListOk(c, p)
    \/ StartAvdNotFound(c)
    \/ \E kind \in ListErrorKinds : StartListFail(c, kind)
    \/ StartPortOk(c)
    \/ StartPortFail(c)
    \/ StartSpawnOk(c)
    \/ \E kind \in SpawnErrorKinds : StartSpawnFail(c, kind)
    \/ StartSettleOk(c)
    \/ StartSettleExited(c)
    \/ DeviceAppeared(c)
    \/ \E kind \in DeviceWaitErrorKinds : DeviceWaitFail(c, kind)
    \/ BootCompleted(c)
    \/ BootTimeout(c)
    \/ UpdateMetaOk(c)
    \/ UpdateMetaFail(c)
    \/ RollbackStopDone(c)
    \/ \E written \in BOOLEAN : RollbackMetaDone(c, written)

\* The startSession calls without stopSession calls.  What a concurrent
\* stopSession does to a start in flight, its emulator ending and its
\* updateMeta rejecting, are steps of these calls as well (ProcExit,
\* UpdateMetaFail).
NextStart ==
    \E c \in Calls :
        \/ StartSession(c)
        \/ ProcExit(c)
        \/ StartContinues(c)

\* NextStart with every operation a startSession call awaits settling
\* eventually: external commands return or fail, timers fire, the image-setup
\* lock is handed on, waitForBoot resolves or rejects.
SpecFair == Init /\ [][NextStart]_vars /\ \A c \in Calls : WF_vars(StartContinues(c))

\* Next with the stopSession calls on ids that are not in the registry.  Such a
\* call changes nothing of the program's state; notFound records its rejection.
NextStopUnknown ==
    \/ Next
    \/ \E c \in Calls : StopUnknown(c)

SpecStopUnknown == Init /\ [][NextStopUnknown]_vars

----------------------------------------------------------------------------
\* EmulatorAdapter.waitForBoot with its clock.  Times are milliseconds since
\* the call started; an adb command itself takes no time.

\* The fixed delay between two `adb devices` polls of waitForDevice.
DevicePollInterval == 1000

\* Values of the timeout argument.
Timeouts == {0, 250, 1000, 1250, 2000, 2250, 3000}

\* Values of config.bootPollInterval (default 2000).
BootPollIntervals == {250, 1000, 2000}

\* Outcomes of `adb devices`: the device is listed, is not listed, adb is
\* missing, the command fails otherwise.
DevicesOutcomes == {"listed", "absent", "ENOENT", "error"}

\* Outcomes of `getprop sys.boot_completed`: 1, anything else, adb is missing,
\* the command fails otherwise.
GetpropOutcomes == {"1", "0", "ENOENT", "error"}

\* Variant of BootLoopRuns: the boot-completion loop measures its deadline
\* from the time the device appeared.
BootLoopRunsFromPhase(now, phaseStart, timeout) == now - phaseStart < timeout

\* Loop condition of the boot-completion loop: Date.now() - startTime < timeout,
\* with startTime taken when waitForBoot was called.
BootLoopRuns(now, phaseStart, timeout) == now < timeout

\* The synchronous start of waitForBoot(adbPort, timeout) with the boot poll
\* interval p: startTime is taken and waitForDevice is called.
waitForBoot(t, p) ==
    /\ wbPc = "idle"
    /\ wbPc' = "device"
    /\ wbTimeout' = t
    /\ wbPoll' = p
    /\ wbNow' = 0
    /\ UNCHANGED << wbError, wbDeviceAt, wbPolls, wbLast >>

\* waitForBoot(adbPort, timeout) is called: startTime is taken, waitForDevice
\* is called and takes its own startTime.
WaitForBoot(t, p) ==
    /\ rbPc = "idle"
    /\ waitForBoot(t, p)
    /\ UNCHANGED mainVars
    /\ UNCHANGED toolVars
    /\ UNCHANGED proxyVars

\* One iteration of waitForDevice's loop: `adb devices` runs; the device is
\* listed (return), adb is missing (ADB_NOT_FOUND), or the loop sleeps.
DevicePoll(out) ==
    /\ wbPc = "device"
    /\ wbNow < wbTimeout
    /\ wbLast' = out
    /\ CASE out = "listed" ->
              /\ wbPc' = "boot"
              /\ wbDeviceAt' = wbNow
              /\ UNCHANGED << wbNow, wbError >>
         [] out = "ENOENT" ->
              /\ wbPc' = "failed"
              /\ wbError' = "ADB_NOT_FOUND"
              /\ UNCHANGED << wbNow, wbDeviceAt >>
         [] OTHER ->
              /\ wbNow' = wbNow + DevicePollInterval
              /\ UNCHANGED << wbPc, wbError, wbDeviceAt >>
    /\ UNCHANGED << wbTimeout, wbPoll, wbPolls >>
    /\ UNCHANGED mainVars
    /\ UNCHANGED toolVars
    /\ UNCHANGED proxyVars

\* waitForDevice's loop ended without the device: EMULATOR_BOOT_TIMEOUT.
DeviceDeadline ==
    /\ wbPc = "device"
    /\ ~(wbNow < wbTimeout)
    /\ wbPc' = "failed"
    /\ wbError' = "EMULATOR_BOOT_TIMEOUT"
    /\ UNCHANGED << wbTimeout, wbPoll, wbNow, wbDeviceAt, wbPolls, wbLast >>
    /\ UNCHANGED mainVars
    /\ UNCHANGED toolVars
    /\ UNCHANGED proxyVars

\* One iteration of the boot-completion loop: getprop runs; 1 returns, anything
\* else (a failed command included) sleeps for the boot poll interval.
BootPoll(out) ==
    /\ wbPc = "boot"
    /\ BootLoopRuns(wbNow, wbDeviceAt, wbTimeout)
    /\ wbLast' = out
    /\ wbPolls' = wbPolls + 1
    /\ IF out = "1"
       THEN /\ wbPc' = "done"
            /\ wbNow' = wbNow
       ELSE /\ wbPc' = wbPc
            /\ wbNow' = wbNow + wbPoll
    /\ UNCHANGED << wbError, wbTimeout, wbPoll, wbDeviceAt >>
    /\ UNCHANGED mainVars
    /\ UNCHANGED toolVars
    /\ UNCHANGED proxyVars

\* The boot-completion loop ended: EMULATOR_BOOT_TIMEOUT.
BootDeadline ==
    /\ wbPc = "boot"
    /\ ~BootLoopRuns(wbNow, wbDeviceAt, wbTimeout)
    /\ wbPc' = "failed"
    /\ wbError' = "EMULATOR_BOOT_TIMEOUT"
    /\ UNCHANGED << wbTimeout, wbPoll, wbNow, wbDeviceAt, wbPolls, wbLast >>
    /\ UNCHANGED mainVars
    /\ UNCHANGED toolVars
    /\ UNCHANGED proxyVars

NextDevice ==
    \/ \E t \in Timeouts, p \in BootPollIntervals : WaitForBoot(t, p)
    \/ \E out \in DevicesOutcomes : DevicePoll(out)
    \/ DeviceDeadline
    \/ \E out \in GetpropOutcomes : BootPoll(out)
    \/ BootDeadline

SpecDevice == Init /\ [][NextDevice]_vars

\* SpecDevice with every adb command of waitForBoot returning or failing and
\* every delay elapsing.
SpecDeviceFair == Init /\ [][NextDevice]_vars /\ WF_vars(NextDevice)

----------------------------------------------------------------------------
\* EmulatorAdapter.reboot

\* Outcomes of the `adb reboot` command.
RebootOutcomes == {"ok", "fail", "timeout"}

\* reboot(adbPort, bootTimeout) is called: the reboot command is sent.
Reboot ==
    /\ rbPc = "idle"
    /\ wbPc = "idle"
    /\ rbPc' = "command"
    /\ rbLog' = Append(rbLog, "reboot")
    /\ UNCHANGED << rbError, rootLog, hPc, hCall, hCmds, hPayload >>
    /\ UNCHANGED << wbPc, wbError, wbTimeout, wbPoll, wbNow, wbDeviceAt, wbPolls, wbLast >>
    /\ UNCHANGED proxyVars
    /\ UNCHANGED mainVars

\* The reboot command settled: the settle delay (delay(5000)) starts, or the catch block
\* rejects with INTERNAL_ERROR.
RebootCommandDone(out) ==
    /\ rbPc = "command"
    /\ IF out = "ok"
       THEN /\ rbPc' = "settle"
            /\ rbLog' = Append(rbLog, "delay")
            /\ rbError' = rbError
       ELSE /\ rbPc' = "failed"
            /\ rbLog' = rbLog
            /\ rbError' = "INTERNAL_ERROR"
    /\ UNCHANGED << rootLog, hPc, hCall, hCmds, hPayload >>
    /\ UNCHANGED << wbPc, wbError, wbTimeout, wbPoll, wbNow, wbDeviceAt, wbPolls, wbLast >>
    /\ UNCHANGED proxyVars
    /\ UNCHANGED mainVars

\* The settle delay elapsed: waitForBoot(adbPort, bootTimeout) is called.
RebootSettled(t, p) ==
    /\ rbPc = "settle"
    /\ rbPc' = "boot"
    /\ rbLog' = Append(rbLog, "waitForBoot")
    /\ waitForBoot(t, p)
    /\ UNCHANGED << rbError, rootLog, hPc, hCall, hCmds, hPayload >>
    /\ UNCHANGED proxyVars
    /\ UNCHANGED mainVars

\* waitForBoot resolved: reboot resolves.
RebootBootResolved ==
    /\ rbPc = "boot"
    /\ wbPc = "done"
    /\ rbPc' = "done"
    /\ UNCHANGED << rbError, rbLog, rootLog, hPc, hCall, hCmds, hPayload >>
    /\ UNCHANGED << wbPc, wbError, wbTimeout, wbPoll, wbNow, wbDeviceAt, wbPolls, wbLast >>
    /\ UNCHANGED proxyVars
    /\ UNCHANGED mainVars

\* waitForBoot rejected: the catch block rejects with a new INTERNAL_ERROR
\* whose message quotes the message of the error caught.
RebootBootRejected ==
    /\ rbPc = "boot"
    /\ wbPc = "failed"
    /\ rbPc' = "failed"
    /\ rbError' = "INTERNAL_ERROR"
    /\ UNCHANGED << rbLog, rootLog, hPc, hCall, hCmds, hPayload >>
    /\ UNCHANGED << wbPc, wbError, wbTimeout, wbPoll, wbNow, wbDeviceAt, wbPolls, wbLast >>
    /\ UNCHANGED proxyVars
    /\ UNCHANGED mainVars

NextReboot ==
    \/ Reboot
    \/ \E out \in RebootOutcomes : RebootCommandDone(out)
    \/ \E t \in Timeouts, p \in BootPollIntervals : RebootSettled(t, p)
    \/ \E out \in DevicesOutcomes : DevicePoll(out)
    \/ DeviceDeadline
    \/ \E out \in GetpropOutcomes : BootPoll(out)
    \/ BootDeadline
    \/ RebootBootResolved
    \/ RebootBootRejected

SpecReboot == Init /\ [][NextReboot]_vars

----------------------------------------------------------------------------
\* EmulatorAdapter.setProxy / clearProxy

\* Number of proxy calls followed.
MaxProxyOps == 3

\* host:port arguments of setProxy.
ProxyArgs == {"10.0.2.2:8080", "10.0.2.2:8081"}

\* Outcomes of the `settings put global http_proxy` command.
SettingsOutcomes == {"ok", "fail"}

\* Variant of ClearProxy: a failed command is raised.
ClearProxyRaises(out) ==
    /\ Len(pxLog) < MaxProxyOps
    /\ httpProxy' = IF out = "ok" THEN ":0" ELSE httpProxy
    /\ pxLog' = Append(pxLog, [op |-> "clearProxy", out |-> out,
                               result |-> IF out = "ok" THEN "ok" ELSE "PROXY_CONFIG_FAILED"])
    /\ UNCHANGED << wbPc, wbError, wbTimeout, wbPoll, wbNow, wbDeviceAt, wbPolls, wbLast >>
    /\ UNCHANGED mainVars
    /\ UNCHANGED toolVars

\* setProxy(adbPort, host, port): the settings command runs; its failure is
\* rethrown as PROXY_CONFIG_FAILED.
SetProxy(arg, out) ==
    /\ Len(pxLog) < MaxProxyOps
    /\ httpProxy' = IF out = "ok" THEN arg ELSE httpProxy
    /\ pxLog' = Append(pxLog, [op |-> "setProxy", out |-> out,
                               result |-> IF out = "ok" THEN "ok" ELSE "PROXY_CONFIG_FAILED"])
    /\ UNCHANGED << wbPc, wbError, wbTimeout, wbPoll, wbNow, wbDeviceAt, wbPolls, wbLast >>
    /\ UNCHANGED mainVars
    /\ UNCHANGED toolVars

\* clearProxy(adbPort): the settings command runs with the value :0; its
\* failure is ignored.
ClearProxy(out) ==
    /\ Len(pxLog) < MaxProxyOps
    /\ httpProxy' = IF out = "ok" THEN ":0" ELSE httpProxy
    /\ pxLog' = Append(pxLog, [op |-> "clearProxy", out |-> out, result |-> "ok"])
    /\ UNCHANGED << wbPc, wbError, wbTimeout, wbPoll, wbNow, wbDeviceAt, wbPolls, wbLast >>
    /\ UNCHANGED mainVars
    /\ UNCHANGED toolVars

NextProxy ==
    \/ \E arg \in ProxyArgs, out \in SettingsOutcomes : SetProxy(arg, out)
    \/ \E out \in SettingsOutcomes : ClearProxy(out)

SpecProxy == Init /\ [][NextProxy]_vars

----------------------------------------------------------------------------
\* EmulatorAdapter.checkRootStatus

\* Number of checkRootStatus calls followed.
MaxRootChecks == 3

\* The marker checkRootStatus looks for in the output of `su -c id`.
RootMarker == "uid=0"

\* Outcomes of the `su -c id` command: it completes with an output (a sequence
\* of words), it exits with an error, it is killed at its timeout.
SuOutcomes ==
    { [status |-> "ok", stdout |-> << "uid=0", "(root)", "gid=0", "(root)" >>],
      [status |-> "ok", stdout |-> << "uid=2000", "(shell)", "gid=2000", "(shell)" >>],
      [status |-> "ok", stdout |-> << >>],
      [status |-> "error", stdout |-> << "su:", "not", "found" >>],
      [status |-> "error", stdout |-> << "uid=0", "(root)" >>],
      [status |-> "timeout", stdout |-> << >>] }

\* stdout.includes(marker)
includes(stdout, marker) == \E i \in 1..Len(stdout) : stdout[i] = marker

\* Variant of CheckRootStatus: a failed or timed-out command is raised.
CheckRootStatusRaises(out) ==
    /\ Len(rootLog) < MaxRootChecks
    /\ rootLog' = Append(rootLog,
                         [out |-> out,
                          raised |-> out.status # "ok",
                          result |-> out.status = "ok" /\ includes(out.stdout, RootMarker)])
    /\ UNCHANGED << rbPc, rbError, rbLog, hPc, hCall, hCmds, hPayload >>
    /\ UNCHANGED << wbPc, wbError, wbTimeout, wbPoll, wbNow, wbDeviceAt, wbPolls, wbLast >>
    /\ UNCHANGED proxyVars
    /\ UNCHANGED mainVars

\* checkRootStatus(adbPort): `su -c id` runs; the result is whether its output
\* includes the marker; a command that fails or times out gives false.
CheckRootStatus(out) ==
    /\ Len(rootLog) < MaxRootChecks
    /\ rootLog' = Append(rootLog,
                         [out |-> out,
                          raised |-> FALSE,
                          result |-> IF out.status = "ok"
                                     THEN includes(out.stdout, RootMarker)
                                     ELSE FALSE])
    /\ UNCHANGED << rbPc, rbError, rbLog, hPc, hCall, hCmds, hPayload >>
    /\ UNCHANGED << wbPc, wbError, wbTimeout, wbPoll, wbNow, wbDeviceAt, wbPolls, wbLast >>
    /\ UNCHANGED proxyVars
    /\ UNCHANGED mainVars

NextRoot == \E out \in SuOutcomes : CheckRootStatus(out)

SpecRoot == Init /\ [][NextRoot]_vars

----------------------------------------------------------------------------
\* The command handlers sniaff.input_text, sniaff.key_event and
\* sniaff.install_mitm_cert.

Tools == {"input_text", "key_event", "install_mitm_cert"}

\* Session ids passed to a handler: the ids startSession generates and one
\* that no call generates.
HandlerIds == 1..(NumCalls + 1)

\* Values of the key argument of key_event: a name of KEY_CODES, a name in
\* lower case, a numeric code, and a string that is neither.
KeyInputs == {"BACK", "home", "66", "bogus"}

\* args.key.toUpperCase()
toUpperCase(k) == IF k = "home" THEN "HOME" ELSE k

\* The names of KEY_CODES among the upper-cased inputs.
KEY_CODES == {"BACK", "HOME"}

\* /^\d+$/.test(args.key)
IsNumeric(k) == k = "66"

\* key_event resolves its key to a code.
KeyResolves(k) == toUpperCase(k) \in KEY_CODES \/ IsNumeric(k)

\* Outcomes of the handler's adb command.
CommandOutcomes == {"ok", "fail", "timeout"}

\* The ErrorCode a handler wraps an error in that is not a SniaffError.
WrapKind(tool) ==
    IF tool = "install_mitm_cert" THEN "INTERNAL_ERROR" ELSE "ADB_COMMAND_FAILED"

\* The payloads of the handlers: { ok: true, ... } and
\* { ok: false, error: sniaffError.toJSON() } with isError: true.
OkPayload == [ok |-> TRUE, isError |-> FALSE, kind |-> "none"]
ErrorPayload(kind) == [ok |-> FALSE, isError |-> TRUE, kind |-> kind]

\* A handler is called: getSession, the key lookup of key_event, then the adb
\* command is issued.  A missing session and an unknown key are thrown inside
\* the try block and returned by its catch as error payloads.
HandlerCall(tool, id, key) ==
    /\ hPc = "idle"
    /\ tool = "key_event" <=> key # "none"
    /\ hCall' = [tool |-> tool, sessionId |-> id, key |-> key,
                 found |-> getSession(id) # NoSession, out |-> "none"]
    /\ IF getSession(id) = NoSession
       THEN /\ hPc' = "returned"
            /\ hCmds' = 0
            /\ hPayload' = ErrorPayload("SESSION_NOT_FOUND")
       ELSE IF tool = "key_event" /\ ~KeyResolves(key)
       THEN /\ hPc' = "returned"
            /\ hCmds' = 0
            /\ hPayload' = ErrorPayload("INVALID_ARGUMENT")
       ELSE /\ hPc' = "command"
            /\ hCmds' = 1
            /\ hPayload' = NoPayload
    /\ UNCHANGED << rootLog, rbPc, rbError, rbLog >>
    /\ UNCHANGED << wbPc, wbError, wbTimeout, wbPoll, wbNow, wbDeviceAt, wbPolls, wbLast >>
    /\ UNCHANGED proxyVars
    /\ UNCHANGED mainVars

\* Variant of HandlerCommandDone: the failure of the adb command leaves the
\* handler as an exception.
HandlerCommandDoneThrows(out) ==
    /\ hPc = "command"
    /\ hCall' = [hCall EXCEPT !.out = out]
    /\ hPc' = IF out = "ok" THEN "returned" ELSE "thrown"
    /\ hPayload' = IF out = "ok" THEN OkPayload ELSE NoPayload
    /\ UNCHANGED hCmds
    /\ UNCHANGED << rootLog, rbPc, rbError, rbLog >>
    /\ UNCHANGED << wbPc, wbError, wbTimeout, wbPoll, wbNow, wbDeviceAt, wbPolls, wbLast >>
    /\ UNCHANGED proxyVars
    /\ UNCHANGED mainVars

\* The adb command of the handler completes: the success payload is returned,
\* or the catch wraps the rejection of execPromise and returns an error payload.
HandlerCommandDone(out) ==
    /\ hPc = "command"
    /\ hCall' = [hCall EXCEPT !.out = out]
    /\ hPc' = "returned"
    /\ hPayload' = IF out = "ok" THEN OkPayload ELSE ErrorPayload(WrapKind(hCall.tool))
    /\ UNCHANGED hCmds
    /\ UNCHANGED << rootLog, rbPc, rbError, rbLog >>
    /\ UNCHANGED << wbPc, wbError, wbTimeout, wbPoll, wbNow, wbDeviceAt, wbPolls, wbLast >>
    /\ UNCHANGED proxyVars
    /\ UNCHANGED mainVars

\* The handlers next to the startSession and stopSession calls that fill and
\* empty the registry they read.
NextHandlers ==
    \/ \E tool \in Tools, id \in HandlerIds, key \in KeyInputs \cup {"none"} :
           HandlerCall(tool, id, key)
    \/ \E out \in CommandOutcomes : HandlerCommandDone(out)
    \/ \E c \in Calls :
           \/ StartSession(c)
           \/ AvdAcquire(c)
           \/ AvdCheckOk(c)
           \/ CreateWorkspaceOk(c)
           \/ StartListOk(c, 0)
           \/ StartPortOk(c)
           \/ StartSpawnOk(c)
           \/ StartSettleOk(c)
           \/ DeviceAppeared(c)
           \/ BootCompleted(c)
           \/ UpdateMetaOk(c)
           \/ StopSession(c)
           \/ StopKillDone(c)
           \/ StopCleanupDone(c)

SpecHandlers == Init /\ [][NextHandlers]_vars

----------------------------------------------------------------------------
\* Properties

IsPrefix(s, t) == Len(s) <= Len(t) /\ \A i \in 1..Len(s) : s[i] = t[i]

\* Notifications a call has emitted when it waits at position p.
Emitted(p) ==
    CASE p = "idle" -> 0
      [] p \in {"SETUP_AVD", "AVD_CHECK", "AVD_HEAL", "AVD_RECHECK"} -> 1
      [] p = "CREATE_WORKSPACE" -> 2
      [] p \in {"START_LIST", "START_PORT", "START_SPAWN", "START_SETTLE"} -> 3
      [] p \in {"WAIT_DEVICE", "WAIT_BOOT"} -> 4
      [] OTHER -> 5

Failing(p) == p \in {"RB_STOP", "RB_META", "thrown"}

\* C1: the stateChange notifications of a call are a prefix of SETUP_AVD,
\* CREATE_WORKSPACE, START_EMULATOR, WAIT_BOOT, READY (the whole sequence when
\* the call returned), every call waits in the step its last notification
\* announced, and a step has run only if the one before it succeeded: a
\* workspace only after image setup, a process only after the workspace, the
\* boot wait only after a process was launched.
StartOrder ==
    \A c \in Calls :
        /\ IsPrefix(events[c], StateOrder)
        /\ ~Failing(pc[c]) => Len(events[c]) = Emitted(pc[c])
        /\ workspace[c] # "none" => Len(events[c]) >= 2
        /\ Len(events[c]) >= 2 => avdInfo[c] # "none"
        /\ Len(events[c]) >= 3 => workspace[c] # "none"
        /\ proc[c] # NoProc => Len(events[c]) >= 3
        /\ Len(events[c]) >= 4 => proc[c] # NoProc

StartOrderWitness ==
    \E c, d \in Calls :
        /\ pc[c] = "returned" /\ events[c] = StateOrder
        /\ pc[d] = "thrown" /\ events[d] = << "SETUP_AVD", "CREATE_WORKSPACE", "START_EMULATOR" >>

\* C2: once a startSession call that failed after workspace creation has
\* thrown, the registry has no entry for its id and the process it launched,
\* if any, is not running.
FailedStartCleansUp ==
    \A c \in Calls :
        (pc[c] = "thrown" /\ Len(events[c]) >= 3) =>
            /\ c \notin sessions
            /\ getSession(c) = NoSession
            /\ ~isRunning(c)

FailedStartCleansUpWitness ==
    \E c \in Calls :
        /\ pc[c] = "thrown"
        /\ events[c] = StateOrder
        /\ proc[c].state = "killed"
        /\ workspace[c] = "exists"

\* C3: no two sessions that are in the registry at the same time hold the same
\* console port or the same companion port.
PortsUnique ==
    \A c, d \in sessions :
        (c # d /\ session[c].emulatorPort # 0) =>
            /\ session[c].emulatorPort # session[d].emulatorPort
            /\ session[c].adbPort # session[d].adbPort

\* C4: a running emulator process that a start launched is never left without
\* a registry entry once that start has ended and no stop is about to kill it.
NoLostProcess ==
    \A c \in Calls :
        (isRunning(c) /\ c \notin sessions) =>
            (pc[c] \notin {"returned", "thrown"} \/ stopPc[c] = "kill")

\* C5: when stopSession resolves, the session's process is not running, its
\* workspace is deleted, the registry entry is gone and getSession finds nothing.
StopTearsDown ==
    [][\A c \in Calls :
        (stopPc[c] = "cleanup" /\ stopPc'[c] = "idle") =>
            /\ proc'[c].state # "running"
            /\ workspace'[c] = "deleted"
            /\ c \notin sessions'
            /\ getSession(c)' = NoSession]_vars

\* C6: stopSession on an id that is not in the registry never gets past the
\* lookup, and the call that is rejected as SESSION_NOT_FOUND leaves the
\* registry, the session objects, the processes, the workspaces and every
\* call in flight as they were.
StopUnknownNoEffect ==
    [][\A c \in Calls :
        /\ (c \notin sessions /\ stopPc[c] = "idle") => stopPc'[c] = "idle"
        /\ (notFound' = c /\ notFound # c) =>
              /\ c \notin sessions
              /\ UNCHANGED << pc, session, sessions, events, observed, workspace, meta, proc,
                              port, caught, thrown, result, stopPc, stopPid >>]_vars

StopUnknownNoEffectWitness ==
    \E c, d \in Calls :
        /\ notFound = c
        /\ c \notin sessions
        /\ workspace[c] = "exists"
        /\ d \in sessions
        /\ isRunning(d)

TypedErrorsOnly ==
    \A c \in Calls :
        /\ pc[c] # "thrown" => thrown[c] = NoError
        /\ pc[c] = "thrown" =>
              /\ thrown[c].typed
              /\ caught[c].typed => thrown[c] = caught[c]
              /\ ~caught[c].typed =>
                    thrown[c] = [typed |-> TRUE, kind |-> "INTERNAL_ERROR", sessionId |-> c]

TypedErrorsOnlyWitness ==
    \E c, d \in Calls :
        /\ pc[c] = "thrown" /\ ~caught[c].typed /\ events[c] = StateOrder
        /\ meta[c] # "ERROR" /\ workspace[c] = "exists"
        /\ pc[d] = "thrown" /\ caught[d].typed /\ Len(events[d]) = 1

\* C9: an id is in the registry only when its workspace was created, and a
\* call that failed in image setup or workspace creation never had a session
\* object or registry entry, launched no process and wrote no metadata.
RegistryAfterWorkspace ==
    \A c \in Calls :
        /\ c \in sessions => workspace[c] # "none"
        /\ session[c] # NoSession => workspace[c] # "none"
        /\ session[c] = NoSession => c \notin sessions
        /\ (Failing(pc[c]) /\ Len(events[c]) <= 2) =>
              /\ pc[c] = "thrown"
              /\ session[c] = NoSession
              /\ proc[c] = NoProc
              /\ workspace[c] = "none"
              /\ meta[c] = "none"

RegistryAfterWorkspaceWitness ==
    \E c, d \in Calls :
        /\ pc[c] = "thrown" /\ Len(events[c]) = 2
        /\ pc[d] = "thrown" /\ Len(events[d]) = 1

RollbackKeepsWorkspace ==
    [][\A c \in Calls :
        (pc'[c] # pc[c] /\ Failing(pc'[c]) /\ Len(events[c]) >= 3) =>
            /\ workspace'[c] = workspace[c]
            /\ meta'[c] \in {meta[c], "ERROR"}
            /\ avdExists' = avdExists
            /\ avdInfo' = avdInfo]_vars

RollbackKeepsWorkspaceWitness ==
    \E c \in Calls :
        /\ pc[c] = "thrown"
        /\ proc[c].state = "killed"
        /\ workspace[c] = "exists"
        /\ meta[c] = "ERROR"
        /\ avdExists
        /\ stopPc[c] = "idle"

\* C12: a waitForBoot call that fails with the boot-timeout kind does so no
\* later than its timeout plus one configured boot poll interval after it was
\* called.
BootTimeoutBound ==
    (wbPc = "failed" /\ wbError = "EMULATOR_BOOT_TIMEOUT") =>
        wbNow <= wbTimeout + wbPoll

\* C13: the boot-completion phase runs only once the device was seen in the
\* enumeration; every getprop poll starts before the one deadline measured from
\* the call start, so the time the enumeration took is taken from the
\* boot-completion phase; expiry in either phase is EMULATOR_BOOT_TIMEOUT, at or
\* after the deadline; the call returns only after getprop reported 1.
TwoPhaseSharedDeadline ==
    /\ wbPc = "boot" => wbDeviceAt >= 0
    /\ wbPolls > 0 =>
          /\ wbDeviceAt >= 0
          /\ wbDeviceAt + (wbPolls - 1) * wbPoll < wbTimeout
    /\ wbPc = "done" => (wbLast = "1" /\ wbDeviceAt >= 0 /\ wbNow < wbTimeout)
    /\ wbPc = "failed" =>
          \/ wbError = "EMULATOR_BOOT_TIMEOUT" /\ wbNow >= wbTimeout
          \/ wbError = "ADB_NOT_FOUND" /\ wbLast = "ENOENT" /\ wbDeviceAt < 0

TwoPhaseSharedDeadlineWitness ==
    /\ wbPc = "failed"
    /\ wbError = "EMULATOR_BOOT_TIMEOUT"
    /\ wbDeviceAt > 0
    /\ wbPolls >= 2
    /\ wbPolls * wbPoll < wbTimeout

\* C14: the console port start resolves from the request is the request (the
\* default when none is given) rounded up to even; the port it allocates is
\* even, at most 5682, available, and no even port from the resolved one up to
\* it is available; the session gets that port and the port after it; when no
\* even port of the range is available start fails with EMULATOR_START_FAILED
\* and no process is spawned.
PortAllocation ==
    [][\A c \in Calls :
        /\ (pc[c] = "START_LIST" /\ pc'[c] = "START_PORT") =>
              /\ port'[c] % 2 = 0
              /\ \E p \in PortInputs :
                    LET r == IF p = 0 THEN DefaultEmulatorPort ELSE p
                    IN port'[c] \in {r, r + 1}
        /\ (pc[c] = "START_PORT" /\ pc'[c] # "START_PORT") =>
              \/ /\ pc'[c] = "START_SPAWN"
                 /\ port'[c] % 2 = 0
                 /\ port'[c] >= port[c]
                 /\ port'[c] <= MaxConsolePort
                 /\ PortAvailable(proc, port'[c])
                 /\ \A q \in port[c]..(port'[c] - 1) :
                       q % 2 = 0 => ~PortAvailable(proc, q)
              \/ /\ Failing(pc'[c])
                 /\ caught'[c] = SniaffError("EMULATOR_START_FAILED")
                 /\ \A q \in port[c]..MaxConsolePort :
                       q % 2 = 0 => ~PortAvailable(proc, q)
                 /\ proc'[c] = NoProc
        /\ (pc[c] = "START_SETTLE" /\ pc'[c] = "WAIT_DEVICE") =>
              /\ session'[c].emulatorPort = port[c]
              /\ session'[c].adbPort = port[c] + 1
              /\ proc[c].port = port[c]]_vars

\* The first candidate was held by the emulator of another session, and the
\* next even port was allocated.
PortAllocationWitness ==
    \E c, d \in Calls :
        /\ session[d].emulatorPort = DefaultEmulatorPort
        /\ isRunning(d)
        /\ proc[d].port = DefaultEmulatorPort
        /\ session[c].emulatorPort = DefaultEmulatorPort + 2
        /\ session[c].adbPort = DefaultEmulatorPort + 3
        /\ isRunning(c)

\* C15: while start waits for the image list it has resolved no port and
\* spawned no process; it goes on to the port step only when the image is in
\* the list; when the image is missing it fails, with AVD_NOT_FOUND unless the
\* listing itself failed, and a start that failed with AVD_NOT_FOUND has no
\* port and no process.
ImageCheckedFirst ==
    [][\A c \in Calls :
        /\ pc[c] = "START_LIST" => (port[c] = 0 /\ proc[c] = NoProc)
        /\ (pc[c] = "START_LIST" /\ pc'[c] = "START_PORT") => avdExists
        /\ (pc[c] = "START_LIST" /\ pc'[c] # "START_LIST" /\ ~avdExists) =>
              /\ Failing(pc'[c])
              /\ caught'[c].kind \in {"AVD_NOT_FOUND"} \cup ListErrorKinds
        /\ caught'[c].kind = "AVD_NOT_FOUND" =>
              /\ caught'[c] = SniaffError("AVD_NOT_FOUND")
              /\ caught[c] = NoError => (pc[c] = "START_LIST" /\ ~avdExists)
              /\ port'[c] = 0
              /\ proc'[c] = NoProc]_vars

ImageCheckedFirstWitness ==
    \E c \in Calls :
        /\ pc[c] = "thrown"
        /\ thrown[c] = SniaffError("AVD_NOT_FOUND")
        /\ port[c] = 0
        /\ proc[c] = NoProc
        /\ workspace[c] = "exists"

\* C16: when the settle delay is over, start returns the pid and port pair
\* only if the process is running then; if it has exited, start fails with
\* EMULATOR_START_FAILED and the session start goes into rollback; once that
\* call has thrown, its id is not in the registry.
SettleCheck ==
    [][\A c \in Calls :
        /\ (pc[c] = "START_SETTLE" /\ pc'[c] = "WAIT_DEVICE") =>
              /\ isRunning(c)
              /\ session'[c].emulatorPid = c
              /\ session'[c].emulatorPort = proc[c].port
              /\ session'[c].adbPort = proc[c].port + 1
        /\ (pc[c] = "START_SETTLE" /\ pc'[c] # "START_SETTLE" /\ ~isRunning(c)) =>
              /\ pc'[c] = "RB_META"
              /\ caught'[c] = SniaffError("EMULATOR_START_FAILED")
              /\ session'[c].state = "ERROR"
              /\ session'[c].emulatorPid = NULL
        /\ (pc'[c] = "thrown" /\ pc[c] # "thrown" /\ proc[c].state = "exited"
              /\ session[c].emulatorPid = NULL) =>
              /\ thrown'[c] = SniaffError("EMULATOR_START_FAILED")
              /\ c \notin sessions']_vars

SettleCheckWitness ==
    \E c \in Calls :
        /\ pc[c] = "thrown"
        /\ proc[c].state = "exited"
        /\ session[c].emulatorPid = NULL
        /\ thrown[c] = SniaffError("EMULATOR_START_FAILED")
        /\ c \notin sessions

\* C17: at most one call is inside the create / root-check / self-heal
\* sequence at a time, and it is the one holding the image; the image is created
\* only when it is missing and is changed only by the call inside the sequence;
\* a call that leaves the sequence successfully finds the image there and
\* reports it as created or reused.
ImageSetupSerialized ==
    [][/\ Cardinality({c \in Calls : pc[c] \in {"AVD_CHECK", "AVD_HEAL", "AVD_RECHECK"}}) <= 1
       /\ \A c \in Calls :
            /\ pc[c] \in {"AVD_CHECK", "AVD_HEAL", "AVD_RECHECK"} => avdLock = c
            /\ (avdInfo[c] = "none" /\ avdInfo'[c] = "created") => ~avdExists
            /\ (avdInfo[c] = "none" /\ avdInfo'[c] = "reused") =>
                  (avdExists /\ avdExists')
            /\ (pc'[c] # pc[c] /\ avdExists' # avdExists) =>
                  (avdLock = c \/ avdLock' = c)
            /\ (pc[c] \in {"AVD_CHECK", "AVD_RECHECK"} /\ pc'[c] = "CREATE_WORKSPACE") =>
                  /\ avdExists'
                  /\ avdInfo'[c] \in {"created", "reused"}
                  /\ avdLock' = 0]_vars

\* Two concurrent calls: one created the image and is inside the sequence, the
\* other waits.
ImageSetupSerializedWitness ==
    \E c, d \in Calls :
        /\ pc[c] = "AVD_CHECK"
        /\ avdInfo[c] = "created"
        /\ pc[d] = "SETUP_AVD"

\* C18: a heal cycle starts only from the failed root check of an image that
\* was already there; it ends in the re-check of the recreated image or in a
\* fatal setup error; the re-check ends the setup, with success or with a fatal
\* setup error, and never starts another cycle.
SingleHealCycle ==
    [][\A c \in Calls :
        /\ (pc'[c] = "AVD_HEAL" /\ pc[c] # "AVD_HEAL") =>
              /\ pc[c] = "AVD_CHECK"
              /\ avdInfo[c] = "reused"
              /\ ~avdExists'
        /\ (pc[c] = "AVD_HEAL" /\ pc'[c] # "AVD_HEAL") =>
              \/ pc'[c] = "AVD_RECHECK" /\ avdExists'
              \/ pc'[c] = "thrown" /\ thrown'[c].kind \in {"AVD_SETUP_FAILED", "INTERNAL_ERROR"}
        /\ (pc[c] = "AVD_RECHECK" /\ pc'[c] # "AVD_RECHECK") =>
              \/ pc'[c] = "CREATE_WORKSPACE"
              \/ pc'[c] = "thrown" /\ thrown'[c].kind \in {"AVD_SETUP_FAILED", "INTERNAL_ERROR"}]_vars

\* One heal cycle was run and the re-check is pending.
SingleHealCycleWitness ==
    \E c \in Calls :
        /\ pc[c] = "AVD_RECHECK"
        /\ avdLock = c
        /\ avdExists
        /\ avdInfo[c] = "created"

\* C19: the state of a session object is always the state its last
\* stateChange notification carried: every transition, the one to ERROR
\* included, was announced.
EveryTransitionNotified ==
    \A c \in Calls :
        session[c] # NoSession =>
            /\ events[c] # << >>
            /\ events[c][Len(events[c])] = session[c].state

\* C20: every clearProxy call resolves, whatever its command did; a setProxy
\* call either resolves or rejects with PROXY_CONFIG_FAILED, and rejects
\* exactly when its command failed; a setProxy followed by a clearProxy whose
\* commands both succeed both resolve, whatever the setting was before.
ProxyBestEffort ==
    /\ \A i \in 1..Len(pxLog) :
          /\ pxLog[i].op = "clearProxy" => pxLog[i].result = "ok"
          /\ pxLog[i].op = "setProxy" =>
                /\ pxLog[i].result \in {"ok", "PROXY_CONFIG_FAILED"}
                /\ pxLog[i].result = "PROXY_CONFIG_FAILED" <=> pxLog[i].out = "fail"
    /\ \A i \in 1..(Len(pxLog) - 1) :
          (/\ pxLog[i].op = "setProxy" /\ pxLog[i].out = "ok"
           /\ pxLog[i + 1].op = "clearProxy" /\ pxLog[i + 1].out = "ok") =>
              /\ pxLog[i].result = "ok"
              /\ pxLog[i + 1].result = "ok"
              /\ i + 1 = Len(pxLog) => httpProxy = ":0"

\* On a device that never had a proxy: setProxy and clearProxy succeed, then a
\* clearProxy whose command fails still resolves.
ProxyBestEffortWitness ==
    /\ Len(pxLog) = 3
    /\ pxLog[1] = [op |-> "setProxy", out |-> "ok", result |-> "ok"]
    /\ pxLog[2] = [op |-> "clearProxy", out |-> "ok", result |-> "ok"]
    /\ pxLog[3] = [op |-> "clearProxy", out |-> "fail", result |-> "ok"]
    /\ httpProxy = ":0"

\* C21: checkRootStatus never raises; it returns true exactly when the su
\* command succeeded and its output includes the root marker, and false for
\* every failed or timed-out command and every output without the marker.
RootCheckTotal ==
    \A i \in 1..Len(rootLog) :
        /\ ~rootLog[i].raised
        /\ rootLog[i].result =
             (rootLog[i].out.status = "ok" /\ includes(rootLog[i].out.stdout, RootMarker))

\* A check of a rooted device, one whose command failed although it printed the
\* marker, and one whose command timed out have all returned.
RootCheckTotalWitness ==
    /\ \E i \in 1..Len(rootLog) : rootLog[i].result
    /\ \E i \in 1..Len(rootLog) :
           /\ rootLog[i].out.status = "error"
           /\ includes(rootLog[i].out.stdout, RootMarker)
           /\ ~rootLog[i].result
    /\ \E i \in 1..Len(rootLog) : rootLog[i].out.status = "timeout" /\ ~rootLog[i].result

\* C22: a command handler always returns a payload and never throws.  For a
\* session id that is not in the registry it returns the SESSION_NOT_FOUND error
\* payload, isError set, without issuing a device command; it returns ok:true
\* only if its device command completed successfully; every other failure is
\* returned as an error payload with a kind.
HandlersReturnPayloads ==
    /\ hPc \in {"idle", "command", "returned"}
    /\ hPc = "returned" =>
          /\ hPayload = OkPayload \/
                 (~hPayload.ok /\ hPayload.isError /\ hPayload.kind # "none")
          /\ ~hCall.found =>
                 hPayload = ErrorPayload("SESSION_NOT_FOUND") /\ hCmds = 0
          /\ hPayload.ok => hCmds = 1 /\ hCall.out = "ok"
          /\ hCall.out \in {"fail", "timeout"} => hPayload.isError
          /\ hCall.found /\ hCall.out = "ok" => hPayload = OkPayload

\* A handler has returned the error payload of a device command that failed for
\* a session that was in the registry when it was called and has been stopped
\* since.
HandlersReturnPayloadsWitness ==
    /\ hPc = "returned"
    /\ hCall.found
    /\ hCall.sessionId \notin sessions
    /\ hCall.out = "timeout"
    /\ hPayload = ErrorPayload("ADB_COMMAND_FAILED")

\* C23: the number of sessions held in the registry at the same time never
\* exceeds the configured session count ceiling.
SessionCeiling == Cardinality(sessions) <= MaxSessions

\* C24: a step of the failure path of one session's start (the catch block, the
\* rollback) and a step of one session's stopSession leave every other session
\* untouched: its registry entry, its process, its workspace and the position
\* of its start call are unchanged.
OthersUntouched ==
    [][\A c \in Calls :
          (\/ pc'[c] # pc[c] /\ Failing(pc'[c])
           \/ stopPc'[c] # stopPc[c])
          => \A d \in Calls \ {c} :
                 /\ (d \in sessions') <=> (d \in sessions)
                 /\ session'[d] = session[d]
                 /\ proc'[d] = proc[d]
                 /\ pc'[d] = pc[d]
                 /\ workspace'[d] = workspace[d]
                 /\ meta'[d] = meta[d]]_vars

\* One start was rolled back after a boot timeout and its emulator killed,
\* while the other session is READY in the registry with its emulator running.
OthersUntouchedWitness ==
    \E c, d \in Calls :
        /\ c # d
        /\ pc[c] = "thrown"
        /\ caught[c].kind = "EMULATOR_BOOT_TIMEOUT"
        /\ proc[c].state = "killed"
        /\ d \in sessions
        /\ session[d].state = "READY"
        /\ pc[d] = "returned"
        /\ proc[d].state = "running"

\* The steps of reboot come in the order reboot command, settle delay,
\* waitForBoot; reboot resolves only after its waitForBoot resolved; no
\* waitForBoot runs when the reboot command failed.
RebootOrder ==
    /\ IsPrefix(rbLog, << "reboot", "delay", "waitForBoot" >>)
    /\ rbPc = "done" => wbPc = "done" /\ Len(rbLog) = 3
    /\ Len(rbLog) < 3 => wbPc = "idle"

\* C25: reboot issues the reboot command, waits the settle delay, then runs
\* waitForBoot, in that order; it resolves only if that waitForBoot resolved
\* and runs no waitForBoot when the reboot command failed; when the boot wait
\* expires the caller receives the typed boot-timeout error.
RebootContract ==
    /\ RebootOrder
    /\ rbPc = "failed" /\ wbError = "EMULATOR_BOOT_TIMEOUT"
           => rbError = "EMULATOR_BOOT_TIMEOUT"

\* C26: when adb is missing (ENOENT) at a poll of waitForBoot, in the
\* enumeration phase or in the boot-completion phase, the call fails with
\* ADB_NOT_FOUND instead of polling on until the boot timeout.
ToolMissingFailsFast ==
    wbLast = "ENOENT" => wbPc = "failed" /\ wbError = "ADB_NOT_FOUND"

\* READY has been announced for session id c.
ReadyAnnounced(ev, c) == \E i \in 1..Len(ev[c]) : ev[c][i] = "READY"

\* C27 as stated: once READY has been announced for a session, its start call
\* is never on the failure path (caught, rolling back, rejected).
ReadyIsFinal ==
    \A c \in Calls : ReadyAnnounced(events, c) => ~Failing(pc[c])

\* C27, amended: once READY has been announced, the start call is awaiting
\* updateMeta or has returned, unless updateMeta rejected: the rejection of
\* updateMeta is the only step that takes an announced READY session into the
\* rollback.
ReadyFinalUnlessMetaFails ==
    [][\A c \in Calls :
          ReadyAnnounced(events', c) =>
              \/ pc'[c] \in {"UPDATE_META", "returned"}
              \/ /\ Failing(pc'[c])
                 /\ Failing(pc[c]) \/ (pc[c] = "UPDATE_META" /\ ReadyAnnounced(events, c))]_vars

\* A session was announced READY, its updateMeta rejected, and the start call
\* rolled it back: emulator killed, state ERROR, entry removed, call rejected
\* with INTERNAL_ERROR.
ReadyFinalUnlessMetaFailsWitness ==
    \E c \in Calls :
        /\ ReadyAnnounced(events, c)
        /\ pc[c] = "thrown"
        /\ caught[c] = RawError
        /\ thrown[c].kind = "INTERNAL_ERROR"
        /\ session[c].state = "ERROR"
        /\ proc[c].state = "killed"
        /\ c \notin sessions

\* C28: a listener reading the registry inside the notification of
\* START_EMULATOR, WAIT_BOOT or READY sees the entry of that session already in
\* the state announced.
ObserverSeesNewState ==
    \A c \in Calls : \A i \in 1..Len(events[c]) :
        events[c][i] \in {"START_EMULATOR", "WAIT_BOOT", "READY"}
            => observed[c][i] = events[c][i]

BootWaitTerminates == (wbPc \in {"device", "boot"}) ~> (wbPc \in {"done", "failed"})

\* C30: every startSession call terminates, provided each operation it awaits
\* settles: it returns a READY result, or it throws with its registry entry
\* removed.
StartTerminates ==
    \A c \in Calls :
        (pc[c] # "idle") ~>
            \/ pc[c] = "returned" /\ result[c].state = "READY"
            \/ pc[c] = "thrown" /\ c \notin sessions

\* Both calls are over, one with a READY result and one rejected after its
\* boot wait timed out.
StartTerminatesWitness ==
    \E c, d \in Calls :
        /\ pc[c] = "returned"
        /\ result[c].state = "READY"
        /\ pc[d] = "thrown"
        /\ thrown[d].kind = "EMULATOR_BOOT_TIMEOUT"
        /\ d \notin sessions

====
